---- MODULE Spec2Model ----
(***************************************************************************)
(* Model of HathoraContextProvider (context/GameContext.tsx): the React    *)
(* context that owns the login token, the connection handle, the latest    *)
(* state snapshot and the outbound actions of the game client.             *)
(*                                                                         *)
(* Granularity: one step is one event-loop task (a context method called   *)
(* by the UI, a transport callback, a promise resolution) together with    *)
(* the React commit that follows it, i.e. the effects whose dependencies   *)
(* changed.  The variables toasts and calls hold what the LAST step        *)
(* emitted (notifications) and sent (transport / lookup requests); lastOp  *)
(* names the last step.                                                    *)
(***************************************************************************)
EXTENDS Naturals, Sequences, FiniteSets, Bags, TLC

VARIABLES
    token,              \* useSessionStorage(client.appId)
    connection,         \* useState<HathoraConnection>: a handle id or None
    playerState,        \* useState<UpdateArgs["state"]>: a snapshot or None
    connectionError,    \* useState<ConnectionFailure>
    connecting,         \* useState<boolean> (undefined is modelled as FALSE)
    loggingIn,          \* useState<boolean> (undefined is modelled as FALSE)
    playerNameMapping,  \* useSessionStorage(`${appId}_player_mapping`)
    user,               \* useState<UserData>
    isLoginIn,          \* useRef(false)
    loginRequests,      \* outstanding client.loginAnonymous() calls, by caller
    handles,            \* transport sessions created by client.connect, in order
    pending,            \* bag of actions sent on a handle and not yet answered
    pendingLookups,     \* outstanding lookupUser(id) requests, per id
    toasts,             \* notifications emitted by the last step
    calls,              \* requests sent to the collaborators by the last step
    lastOp              \* the last step taken

vars == <<token, connection, playerState, connectionError, connecting, loggingIn,
          playerNameMapping, user, isLoginIn, loginRequests, handles, pending,
          pendingLookups, toasts, calls, lastOp>>

----------------------------------------------------------------------------
(* Bounds *)
MaxHandles == 2
MaxPending == 1
MaxLookups == 1

(* Value domains *)
None == "none"                          \* an absent string (undefined)
NoHandle == 0                           \* an absent connection handle
Users == {"u1", "u2"}
Tokens == {"t1", "t2"}                  \* tokens loginAnonymous can return
StoredTokens == {"t1"}                  \* tokens found in session storage at startup
Rooms == {"roomA", "roomB"}
Errors == {"e1"}
Cards == {"c1"}
Results == {"ok", "error"}

\* lookupUser(id) / the identity carried by a token: the display name of an id
NameOf(id) == IF id = "u1" THEN "name1" ELSE "name2"
UserData(id) == [id |-> id, name |-> NameOf(id)]
NoUser == [id |-> None, name |-> None]  \* an absent UserData

\* HathoraClient.getUserFromToken(token): decodes the identity the token carries
getUserFromToken(t) == UserData(IF t = "t1" THEN "u1" ELSE "u2")

\* UpdateArgs["state"]: the turn field and the rest of the snapshot
Snapshots == [turn : Users \cup {None}, other : {"a", "b"}]
NoState == [turn |-> None, other |-> None]   \* an absent snapshot

\* playerState?.turn
Turn(ps) == ps.turn

\* user?.id
UserId(u) == u.id

HandleIds == 1..Len(handles)
Call(call, h, arg) == [call |-> call, h |-> h, arg |-> arg]

Op(op, h, kind, res) == [op |-> op, h |-> h, kind |-> kind, res |-> res]

----------------------------------------------------------------------------
(* getUserName: the cached name, or the raw id and a background lookup *)
getUserName(userId) ==
    IF playerNameMapping[userId] # NoUser
    THEN playerNameMapping[userId].name
    ELSE userId

\* a variant of getUserName that starts a lookup without consulting the cache
getUserNameLookupsAlways(userId) == <<Call("lookupUser", NoHandle, userId)>>

getUserNameLookups(userId) ==
    IF playerNameMapping[userId] # NoUser THEN <<>> ELSE <<Call("lookupUser", NoHandle, userId)>>

(* useEffect(..., [playerState?.turn]) run by the commit that makes ps the snapshot *)
TurnEffectRuns(ps) == Turn(ps) # Turn(playerState) /\ Turn(ps) # None

\* a variant whose dependency is the whole snapshot instead of its turn field
TurnToastsOnAnyChange(ps) ==
    IF ps = playerState \/ Turn(ps) = None THEN <<>>
    ELSE IF Turn(ps) = UserId(user)
         THEN <<[kind |-> "success", msg |-> "your turn"]>>
         ELSE <<[kind |-> "info", msg |-> getUserName(Turn(ps))]>>

TurnToasts(ps) ==
    IF ~TurnEffectRuns(ps) THEN <<>>
    ELSE IF Turn(ps) = UserId(user)
         THEN <<[kind |-> "success", msg |-> "your turn"]>>
         ELSE <<[kind |-> "info", msg |-> getUserName(Turn(ps))]>>

TurnLookups(ps) ==
    IF TurnEffectRuns(ps) /\ Turn(ps) # UserId(user)
    THEN getUserNameLookups(Turn(ps))
    ELSE <<>>

\* pendingLookups after the requests in a sequence of calls have been issued
AddLookups(cs) ==
    [id \in Users |->
        pendingLookups[id] + Cardinality({i \in 1..Len(cs) : cs[i].arg = id})]

LookupRoom(cs) == \A i \in 1..Len(cs) : pendingLookups[cs[i].arg] < MaxLookups

(* useEffect(..., [connectionError]): a toast for every failure object stored *)
ErrorToasts(e) == IF e # None THEN <<[kind |-> "error", msg |-> e]>> ELSE <<>>

(* HandleConnection: the toast for an awaited response *)
HandleConnection(response) ==
    IF response = "error" THEN <<[kind |-> "error", msg |-> "action failed"]>> ELSE <<>>

----------------------------------------------------------------------------
(* The state after the provider has mounted: the token and the user directory
   come from session storage, and the effect on [token] has decoded the user *)
Mounted(storedToken, storedMapping) ==
    /\ token = storedToken
    /\ connection = NoHandle
    /\ playerState = NoState
    /\ connectionError = None
    /\ connecting = FALSE
    /\ loggingIn = FALSE
    /\ playerNameMapping = storedMapping
    /\ user = IF storedToken # None THEN getUserFromToken(storedToken) ELSE NoUser
    /\ isLoginIn = FALSE
    /\ loginRequests = <<>>
    /\ handles = <<>>
    /\ pending = EmptyBag
    /\ pendingLookups = [id \in Users |-> 0]
    /\ toasts = <<>>
    /\ calls = <<>>
    /\ lastOp = Op("init", NoHandle, None, None)

\* the user directory a session that logged in with token t has stored
SeededMapping(t) ==
    [id \in Users |->
        IF t # None /\ id = getUserFromToken(t).id THEN UserData(id) ELSE NoUser]

Init == \E t \in StoredTokens \cup {None} : Mounted(t, SeededMapping(t))

----------------------------------------------------------------------------
\* a variant of login() without the isLoginIn guard
LoginEnterUnguarded(caller) ==
    /\ loggingIn' = TRUE
    /\ isLoginIn' = TRUE
    /\ loginRequests' = Append(loginRequests, caller)
    /\ calls' = <<Call("loginAnonymous", NoHandle, None)>>

(* login(), entered by caller ("login" for the UI, "createGame" for createGame) *)
LoginEnter(caller) ==
    IF ~isLoginIn
    THEN /\ loggingIn' = TRUE
         /\ isLoginIn' = TRUE
         /\ loginRequests' = Append(loginRequests, caller)
         /\ calls' = <<Call("loginAnonymous", NoHandle, None)>>
    ELSE /\ UNCHANGED <<loggingIn, isLoginIn, loginRequests>>
         /\ calls' = <<>>

Login ==
    /\ LoginEnter("login")
    /\ lastOp' = Op("login", NoHandle, None, IF isLoginIn THEN None ELSE "pending")
    /\ toasts' = <<>>
    /\ UNCHANGED <<token, connection, playerState, connectionError, connecting,
                   playerNameMapping, user, handles, pending, pendingLookups>>

\* a variant in which createGame does not test the token login() returned
LoginSettleCreatesAnyway(outcome) ==
    /\ loginRequests # <<>>
    /\ LET caller == Head(loginRequests)
           ok == outcome # "reject" /\ outcome # None
       IN /\ loginRequests' = Tail(loginRequests)
          /\ IF ok
             THEN /\ user' = getUserFromToken(outcome)
                  /\ playerNameMapping' =
                        [playerNameMapping EXCEPT ![getUserFromToken(outcome).id] =
                            getUserFromToken(outcome)]
                  /\ token' = outcome
             ELSE UNCHANGED <<user, playerNameMapping, token>>
          /\ isLoginIn' = FALSE
          /\ loggingIn' = FALSE
          /\ calls' = IF caller = "createGame"
                      THEN <<Call("create", NoHandle, IF ok THEN outcome ELSE None)>>
                      ELSE <<>>
          /\ lastOp' = Op("loginSettle", NoHandle, caller, IF ok THEN outcome ELSE None)
    /\ toasts' = <<>>
    /\ UNCHANGED <<connection, playerState, connectionError, connecting,
                   handles, pending, pendingLookups>>

\* a variant of login() that does not store the decoded user in the user directory
LoginSettleNoSeed(outcome) ==
    /\ loginRequests # <<>>
    /\ LET caller == Head(loginRequests)
           ok == outcome # "reject" /\ outcome # None
       IN /\ loginRequests' = Tail(loginRequests)
          /\ IF ok
             THEN /\ user' = getUserFromToken(outcome)
                  /\ token' = outcome
             ELSE UNCHANGED <<user, token>>
          /\ UNCHANGED playerNameMapping
          /\ isLoginIn' = FALSE
          /\ loggingIn' = FALSE
          /\ calls' = IF caller = "createGame" /\ ok
                      THEN <<Call("create", NoHandle, outcome)>>
                      ELSE <<>>
          /\ lastOp' = Op("loginSettle", NoHandle, caller, IF ok THEN outcome ELSE None)
    /\ toasts' = <<>>
    /\ UNCHANGED <<connection, playerState, connectionError, connecting,
                   handles, pending, pendingLookups>>

\* a variant of login() that stores whatever the request produced, also after a rejection
LoginSettleStoresAbsent(outcome) ==
    /\ loginRequests # <<>>
    /\ LET caller == Head(loginRequests)
           ok == outcome # "reject" /\ outcome # None
       IN /\ loginRequests' = Tail(loginRequests)
          /\ IF ok
             THEN /\ user' = getUserFromToken(outcome)
                  /\ playerNameMapping' =
                        [playerNameMapping EXCEPT ![getUserFromToken(outcome).id] =
                            getUserFromToken(outcome)]
                  /\ token' = outcome
             ELSE /\ UNCHANGED <<user, playerNameMapping>>
                  /\ token' = None
          /\ isLoginIn' = FALSE
          /\ loggingIn' = FALSE
          /\ calls' = IF caller = "createGame" /\ ok
                      THEN <<Call("create", NoHandle, outcome)>>
                      ELSE <<>>
          /\ lastOp' = Op("loginSettle", NoHandle, caller, IF ok THEN outcome ELSE None)
    /\ toasts' = <<>>
    /\ UNCHANGED <<connection, playerState, connectionError, connecting,
                   handles, pending, pendingLookups>>

\* a variant of login() that releases the guard after the try body instead of in finally
LoginSettleNoFinally(outcome) ==
    /\ loginRequests # <<>>
    /\ LET caller == Head(loginRequests)
           ok == outcome # "reject" /\ outcome # None
       IN /\ loginRequests' = Tail(loginRequests)
          /\ IF ok
             THEN /\ user' = getUserFromToken(outcome)
                  /\ playerNameMapping' =
                        [playerNameMapping EXCEPT ![getUserFromToken(outcome).id] =
                            getUserFromToken(outcome)]
                  /\ token' = outcome
                  /\ isLoginIn' = FALSE
                  /\ loggingIn' = FALSE
             ELSE UNCHANGED <<user, playerNameMapping, token, isLoginIn, loggingIn>>
          /\ calls' = IF caller = "createGame" /\ ok
                      THEN <<Call("create", NoHandle, outcome)>>
                      ELSE <<>>
          /\ lastOp' = Op("loginSettle", NoHandle, caller, IF ok THEN outcome ELSE None)
    /\ toasts' = <<>>
    /\ UNCHANGED <<connection, playerState, connectionError, connecting,
                   handles, pending, pendingLookups>>

(* the awaited client.loginAnonymous() settles: a token, or a rejection *)
LoginSettle(outcome) ==
    /\ loginRequests # <<>>
    /\ LET caller == Head(loginRequests)
           ok == outcome # "reject" /\ outcome # None
       IN /\ loginRequests' = Tail(loginRequests)
          /\ IF ok
             THEN /\ user' = getUserFromToken(outcome)
                  /\ playerNameMapping' =
                        [playerNameMapping EXCEPT ![getUserFromToken(outcome).id] =
                            getUserFromToken(outcome)]
                  /\ token' = outcome
             ELSE UNCHANGED <<user, playerNameMapping, token>>
          /\ isLoginIn' = FALSE
          /\ loggingIn' = FALSE
          /\ calls' = IF caller = "createGame" /\ ok
                      THEN <<Call("create", NoHandle, outcome)>>
                      ELSE <<>>
          /\ lastOp' = Op("loginSettle", NoHandle, caller, IF ok THEN outcome ELSE None)
    /\ toasts' = <<>>
    /\ UNCHANGED <<connection, playerState, connectionError, connecting,
                   handles, pending, pendingLookups>>

(* createGame() *)
CreateGame ==
    /\ IF token # None
       THEN /\ calls' = <<Call("create", NoHandle, token)>>
            /\ UNCHANGED <<loggingIn, isLoginIn, loginRequests>>
            /\ lastOp' = Op("createGame", NoHandle, None, "pending")
       ELSE /\ LoginEnter("createGame")
            /\ lastOp' = Op("createGame", NoHandle, None, IF isLoginIn THEN None ELSE "pending")
    /\ toasts' = <<>>
    /\ UNCHANGED <<token, connection, playerState, connectionError, connecting,
                   playerNameMapping, user, handles, pending, pendingLookups>>

----------------------------------------------------------------------------
(* connect(stateId): client.connect(token, stateId, onUpdate, onError) *)
ConnectStep(stateId) ==
    /\ Len(handles) < MaxHandles
    /\ connecting' = TRUE
    /\ handles' = Append(handles, [status |-> "live"])
    /\ connection' = Len(handles) + 1

Connect(stateId) ==
    /\ ConnectStep(stateId)
    /\ calls' = <<Call("connect", Len(handles) + 1, stateId)>>
    /\ toasts' = <<>>
    /\ lastOp' = Op("connect", Len(handles) + 1, None, None)
    /\ UNCHANGED <<token, playerState, connectionError, loggingIn, playerNameMapping,
                   user, isLoginIn, loginRequests, pending, pendingLookups>>

\* a variant of the on-state-update callback that merges into the previous snapshot
StateUpdateCallbackMerge(h, state) ==
    /\ playerState' = IF playerState = NoState THEN state
                      ELSE [turn |-> state.turn, other |-> playerState.other]
    /\ connecting' = FALSE
    /\ UNCHANGED <<connection, connectionError>>

(* the on-state-update callback registered by connect for handle h *)
StateUpdateCallback(h, state) ==
    /\ playerState' = state
    /\ connecting' = FALSE
    /\ UNCHANGED <<connection, connectionError>>

OnStateUpdate(h, state) ==
    /\ h \in HandleIds
    /\ handles[h].status \in {"live", "closing"}
    /\ LookupRoom(TurnLookups(state))
    /\ StateUpdateCallback(h, state)
    /\ toasts' = TurnToasts(state)
    /\ calls' = TurnLookups(state)
    /\ pendingLookups' = AddLookups(TurnLookups(state))
    /\ lastOp' = Op("onStateUpdate", h, state.turn, state.other)
    /\ UNCHANGED <<token, loggingIn, playerNameMapping, user, isLoginIn,
                   loginRequests, handles, pending>>

(* the on-failure callback registered by connect for handle h; the transport
   session may or may not survive the failure it reports *)
FailureCallback(h, e) ==
    /\ connectionError' = e
    /\ connecting' = FALSE
    /\ UNCHANGED <<connection, playerState>>

OnFailure(h, e, dead) ==
    /\ h \in HandleIds
    /\ handles[h].status \in {"live", "closing"}
    /\ FailureCallback(h, e)
    /\ handles' = IF dead THEN [handles EXCEPT ![h].status = "closed"] ELSE handles
    /\ toasts' = ErrorToasts(e)
    /\ calls' = <<>>
    /\ lastOp' = Op("onFailure", h, None, e)
    /\ UNCHANGED <<token, loggingIn, playerNameMapping, user, isLoginIn,
                   loginRequests, pending, pendingLookups>>

(* connection.disconnect() on the transport: the session is being torn down;
   callbacks already under way may still be delivered until it is closed *)
TearDown(h) ==
    [handles EXCEPT ![h].status = IF @ = "live" THEN "closing" ELSE @]

TransportClosed(h) ==
    /\ h \in HandleIds
    /\ handles[h].status = "closing"
    /\ handles' = [handles EXCEPT ![h].status = "closed"]
    /\ toasts' = <<>>
    /\ calls' = <<>>
    /\ lastOp' = Op("transportClosed", h, None, None)
    /\ UNCHANGED <<token, connection, playerState, connectionError, connecting, loggingIn,
                   playerNameMapping, user, isLoginIn, loginRequests, pending,
                   pendingLookups>>

\* a variant of disconnect() that forgets to clear the stored error
DisconnectKeepsError ==
    /\ IF connection # NoHandle
       THEN /\ handles' = TearDown(connection)
            /\ connection' = NoHandle
            /\ playerState' = NoState
            /\ calls' = <<Call("disconnect", connection, None)>>
       ELSE /\ UNCHANGED <<handles, connection, playerState>>
            /\ calls' = <<>>
    /\ toasts' = <<>>
    /\ lastOp' = Op("disconnect", connection, None, None)
    /\ UNCHANGED <<token, connectionError, connecting, loggingIn, playerNameMapping, user,
                   isLoginIn, loginRequests, pending, pendingLookups>>

\* a variant of disconnect() that clears the state without testing the handle
DisconnectUnguarded ==
    /\ IF connection # NoHandle
       THEN /\ handles' = TearDown(connection)
            /\ calls' = <<Call("disconnect", connection, None)>>
       ELSE /\ UNCHANGED handles
            /\ calls' = <<>>
    /\ connection' = NoHandle
    /\ playerState' = NoState
    /\ connectionError' = None
    /\ toasts' = <<>>
    /\ lastOp' = Op("disconnect", connection, None, None)
    /\ UNCHANGED <<token, connecting, loggingIn, playerNameMapping, user, isLoginIn,
                   loginRequests, pending, pendingLookups>>

(* disconnect() *)
Disconnect ==
    /\ IF connection # NoHandle
       THEN /\ handles' = TearDown(connection)
            /\ connection' = NoHandle
            /\ playerState' = NoState
            /\ connectionError' = None
            /\ calls' = <<Call("disconnect", connection, None)>>
       ELSE /\ UNCHANGED <<handles, connection, playerState, connectionError>>
            /\ calls' = <<>>
    /\ toasts' = TurnToasts(playerState')
    /\ lastOp' = Op("disconnect", connection, None, None)
    /\ UNCHANGED <<token, connecting, loggingIn, playerNameMapping, user, isLoginIn,
                   loginRequests, pending, pendingLookups>>

(* endGame() *)
EndGame ==
    /\ playerState' = NoState
    /\ IF connection # NoHandle
       THEN /\ handles' = TearDown(connection)
            /\ calls' = <<Call("disconnect", connection, None)>>
       ELSE /\ UNCHANGED handles
            /\ calls' = <<>>
    /\ toasts' = TurnToasts(playerState')
    /\ lastOp' = Op("endGame", connection, None, None)
    /\ UNCHANGED <<token, connection, connectionError, connecting, loggingIn,
                   playerNameMapping, user, isLoginIn, loginRequests, pending,
                   pendingLookups>>

----------------------------------------------------------------------------
(* an action sent on handle h: connection.<kind>(payload) *)
Request(h, kind, card) == [h |-> h, kind |-> kind, card |-> card]

(* joinGame(gameId): connect, then connection.joinGame({}) on the new handle *)
JoinGame(gameId) ==
    /\ ConnectStep(gameId)
    /\ BagCardinality(pending) < MaxPending
    /\ pending' = pending (+) SetToBag({Request(Len(handles) + 1, "joinGame", None)})
    /\ calls' = <<Call("connect", Len(handles) + 1, gameId),
                  Call("joinGame", Len(handles) + 1, None)>>
    /\ toasts' = <<>>
    /\ lastOp' = Op("joinGame", Len(handles) + 1, None, None)
    /\ UNCHANGED <<token, playerState, connectionError, loggingIn, playerNameMapping,
                   user, isLoginIn, loginRequests, pendingLookups>>

\* a variant that sends without testing the handle
SendActionUnguarded(kind, card) ==
    /\ BagCardinality(pending) < MaxPending
    /\ pending' = pending (+) SetToBag({Request(connection, kind, card)})
    /\ calls' = <<Call(kind, connection, card)>>
    /\ toasts' = <<>>
    /\ lastOp' = Op(kind, connection, None, None)
    /\ UNCHANGED <<token, connection, playerState, connectionError, connecting, loggingIn,
                   playerNameMapping, user, isLoginIn, loginRequests, handles,
                   pendingLookups>>

(* startGame / playCard / drawCard: if (connection) HandleConnection(connection.<kind>()) *)
SendAction(kind, card) ==
    /\ IF connection # NoHandle
       THEN /\ BagCardinality(pending) < MaxPending
            /\ pending' = pending (+) SetToBag({Request(connection, kind, card)})
            /\ calls' = <<Call(kind, connection, card)>>
       ELSE /\ UNCHANGED pending
            /\ calls' = <<>>
    /\ toasts' = <<>>
    /\ lastOp' = Op(kind, connection, None, None)
    /\ UNCHANGED <<token, connection, playerState, connectionError, connecting, loggingIn,
                   playerNameMapping, user, isLoginIn, loginRequests, handles,
                   pendingLookups>>

StartGame == SendAction("startGame", None)

PlayCard(card) == SendAction("playCard", card)

DrawCard == SendAction("drawCard", None)

(* which requests are awaited through HandleConnection *)
Wrapped(kind) == kind \in {"startGame", "playCard", "drawCard"}

\* a variant in which joinGame rolls the connection back when the join fails
ActionResultRollback(req, response) ==
    /\ BagIn(req, pending)
    /\ pending' = pending (-) SetToBag({req})
    /\ toasts' = IF Wrapped(req.kind) THEN HandleConnection(response) ELSE <<>>
    /\ lastOp' = Op("actionResult", req.h, req.kind, response)
    /\ IF req.kind = "joinGame" /\ response = "error"
       THEN /\ handles' = TearDown(req.h)
            /\ connection' = NoHandle
            /\ playerState' = NoState
            /\ calls' = <<Call("disconnect", req.h, None)>>
       ELSE /\ UNCHANGED <<handles, connection, playerState>>
            /\ calls' = <<>>
    /\ UNCHANGED <<token, connectionError, connecting, loggingIn, playerNameMapping, user,
                   isLoginIn, loginRequests, pendingLookups>>

(* the response to a sent action arrives and the awaiting method resumes *)
ActionResult(req, response) ==
    /\ BagIn(req, pending)
    /\ pending' = pending (-) SetToBag({req})
    /\ toasts' = IF Wrapped(req.kind) THEN HandleConnection(response) ELSE <<>>
    /\ calls' = <<>>
    /\ lastOp' = Op("actionResult", req.h, req.kind, response)
    /\ UNCHANGED <<token, connection, playerState, connectionError, connecting, loggingIn,
                   playerNameMapping, user, isLoginIn, loginRequests, handles,
                   pendingLookups>>

----------------------------------------------------------------------------
(* getUserName(userId) called by a component while rendering *)
GetUserName(userId) ==
    /\ LookupRoom(getUserNameLookups(userId))
    /\ calls' = getUserNameLookups(userId)
    /\ pendingLookups' = AddLookups(getUserNameLookups(userId))
    /\ toasts' = <<>>
    /\ lastOp' = Op("getUserName", NoHandle, userId, getUserName(userId))
    /\ UNCHANGED <<token, connection, playerState, connectionError, connecting, loggingIn,
                   playerNameMapping, user, isLoginIn, loginRequests, handles, pending>>

(* lookupUser(userId) settles: .then stores the record; a rejection is unhandled *)
LookupSettle(userId, ok) ==
    /\ pendingLookups[userId] > 0
    /\ pendingLookups' = [pendingLookups EXCEPT ![userId] = @ - 1]
    /\ playerNameMapping' =
          IF ok THEN [playerNameMapping EXCEPT ![userId] = UserData(userId)]
          ELSE playerNameMapping
    /\ toasts' = <<>>
    /\ calls' = <<>>
    /\ lastOp' = Op("lookupSettle", NoHandle, userId, IF ok THEN "ok" ELSE "error")
    /\ UNCHANGED <<token, connection, playerState, connectionError, connecting, loggingIn,
                   user, isLoginIn, loginRequests, handles, pending>>

----------------------------------------------------------------------------
Next ==
    \/ Login
    \/ \E outcome \in Tokens \cup {"reject"} : LoginSettle(outcome)
    \/ CreateGame
    \/ \E stateId \in Rooms : Connect(stateId)
    \/ \E h \in HandleIds, state \in Snapshots : OnStateUpdate(h, state)
    \/ \E h \in HandleIds, e \in Errors, dead \in BOOLEAN : OnFailure(h, e, dead)
    \/ \E h \in HandleIds : TransportClosed(h)
    \/ Disconnect
    \/ EndGame
    \/ \E gameId \in Rooms : JoinGame(gameId)
    \/ StartGame
    \/ \E card \in Cards : PlayCard(card)
    \/ DrawCard
    \/ \E req \in BagToSet(pending), response \in Results : ActionResult(req, response)
    \/ \E userId \in Users : GetUserName(userId)
    \/ \E userId \in Users, ok \in BOOLEAN : LookupSettle(userId, ok)

Spec == Init /\ [][Next]_vars

(* The connection manager on its own: connect / disconnect / endGame, the
   transport's callbacks, and the lookups the turn effect starts *)
NextConn ==
    \/ \E stateId \in Rooms : Connect(stateId)
    \/ \E h \in HandleIds, state \in Snapshots : OnStateUpdate(h, state)
    \/ \E h \in HandleIds, e \in Errors, dead \in BOOLEAN : OnFailure(h, e, dead)
    \/ \E h \in HandleIds : TransportClosed(h)
    \/ Disconnect
    \/ EndGame
    \/ \E userId \in Users, ok \in BOOLEAN : LookupSettle(userId, ok)

SpecConn == Init /\ [][NextConn]_vars

(* Action dispatch: a session that starts logged in with every player's name
   already in the persisted user directory, so that no lookup is started *)
InitCached == \E t \in StoredTokens : Mounted(t, [id \in Users |-> UserData(id)])

NextAct ==
    \/ \E stateId \in Rooms : Connect(stateId)
    \/ \E gameId \in Rooms : JoinGame(gameId)
    \/ \E h \in HandleIds, state \in Snapshots : OnStateUpdate(h, state)
    \/ \E h \in HandleIds, e \in Errors, dead \in BOOLEAN : OnFailure(h, e, dead)
    \/ \E h \in HandleIds : TransportClosed(h)
    \/ Disconnect
    \/ EndGame
    \/ StartGame
    \/ \E card \in Cards : PlayCard(card)
    \/ DrawCard
    \/ \E req \in BagToSet(pending), response \in Results : ActionResult(req, response)

SpecAct == InitCached /\ [][NextAct]_vars

(* Login and the user directory on their own *)
NextLogin ==
    \/ Login
    \/ \E outcome \in Tokens \cup {"reject"} : LoginSettle(outcome)
    \/ CreateGame
    \/ \E userId \in Users : GetUserName(userId)
    \/ \E userId \in Users, ok \in BOOLEAN : LookupSettle(userId, ok)

SpecLogin == Init /\ [][NextLogin]_vars

----------------------------------------------------------------------------
(* Properties *)

IsCallback(op) == op.op \in {"onStateUpdate", "onFailure"}
IsSend(op) == op.op \in {"startGame", "playCard", "drawCard"}
LiveHandles == {h \in HandleIds : handles[h].status = "live"}
TurnNotifications(ts) == Cardinality({i \in 1..Len(ts) : ts[i].kind \in {"success", "info"}})
NoCall(cs, name) == \A i \in 1..Len(cs) : cs[i].call # name

\* C1: once connect has replaced a handle, a callback of the replaced handle changes
\* neither playerState nor connectionError nor connecting.
C1_StaleCallbackIgnored ==
    [][(IsCallback(lastOp') /\ connection # NoHandle /\ lastOp'.h # connection)
        => UNCHANGED <<playerState, connectionError, connecting>>]_vars

\* C2: whenever the context holds no connection handle, playerState is absent.
C2_NoHandleNoState == connection = NoHandle => playerState = NoState

\* C3: at most one loginAnonymous request is outstanding, and a login() made while one
\* is in flight sends no request, queues nothing and returns absent.
C3_LoginReentrant ==
    [][/\ Len(loginRequests') <= 1
       /\ (isLoginIn /\ (lastOp'.op = "login" \/ (lastOp'.op = "createGame" /\ token = None)))
            => /\ NoCall(calls', "loginAnonymous")
               /\ loginRequests' = loginRequests
               /\ lastOp'.res = None]_vars

C3_Witness ==
    /\ lastOp.op = "login"
    /\ lastOp.res = None
    /\ isLoginIn
    /\ Len(loginRequests) = 1

\* C4 (as claimed): applying a snapshot emits exactly one turn notification if its turn
\* differs from the turn of the snapshot it replaces, and none otherwise.
C4_ToastIffTurnDiffers ==
    [][lastOp'.op = "onStateUpdate"
        => TurnNotifications(toasts') = IF Turn(playerState') # Turn(playerState) THEN 1 ELSE 0]_vars

\* C4 (amended): applying a snapshot emits exactly one turn notification if its turn is
\* present and differs from the turn of the snapshot it replaces (absent when there is
\* none), and no turn notification otherwise.
C4_ToastIffTurnDiffersAndPresent ==
    [][lastOp'.op = "onStateUpdate"
        => TurnNotifications(toasts') =
              IF Turn(playerState') # Turn(playerState) /\ Turn(playerState') # None
              THEN 1 ELSE 0]_vars

C4_Witness ==
    /\ lastOp.op = "onStateUpdate"
    /\ Turn(playerState) \in Users
    /\ Turn(playerState) # UserId(user)
    /\ toasts = <<[kind |-> "info", msg |-> getUserName(Turn(playerState))]>>

\* C5: the number of transport sessions created and not torn down never exceeds one.
C5_AtMostOneLive == Cardinality(LiveHandles) <= 1

\* C6: disconnect() with a handle held tells the transport to tear that handle down and
\* leaves no handle, no playerState and no connectionError.
C6_DisconnectClears ==
    [][(lastOp'.op = "disconnect" /\ connection # NoHandle)
        => /\ calls' = <<Call("disconnect", connection, None)>>
           /\ handles'[connection].status # "live"
           /\ connection' = NoHandle
           /\ playerState' = NoState
           /\ connectionError' = None]_vars

C6_Witness ==
    /\ lastOp.op = "disconnect"
    /\ lastOp.h # NoHandle
    /\ handles[lastOp.h].status = "closing"
    /\ connection = NoHandle

\* C7: disconnect() with no handle held makes no transport call and leaves handle,
\* playerState, connectionError, token and user as they were.
C7_DisconnectNoop ==
    [][(lastOp'.op = "disconnect" /\ connection = NoHandle)
        => /\ calls' = <<>>
           /\ toasts' = <<>>
           /\ UNCHANGED <<connection, playerState, connectionError, token, user, handles>>]_vars

C7_Witness ==
    /\ lastOp.op = "disconnect"
    /\ lastOp.h = NoHandle
    /\ connection = NoHandle
    /\ Len(handles) > 0

\* C8: startGame, playCard and drawCard with no handle held send nothing, notify nothing
\* and change no context state.
C8_SendDropped ==
    [][(IsSend(lastOp') /\ connection = NoHandle)
        => /\ calls' = <<>>
           /\ toasts' = <<>>
           /\ UNCHANGED <<token, connection, playerState, connectionError, connecting,
                          loggingIn, playerNameMapping, user, handles, pending>>]_vars

C8_Witness ==
    /\ IsSend(lastOp)
    /\ lastOp.h = NoHandle
    /\ connection = NoHandle
    /\ \E h \in HandleIds : handles[h].status # "live"

\* C9: joinGame installs the handle it connects, and a failed join leaves that handle
\* held and not torn down and playerState as the transport pushed it.
C9_JoinNoRollback ==
    [][/\ lastOp'.op = "joinGame"
            => connection' = lastOp'.h /\ handles'[lastOp'.h].status = "live"
       /\ (lastOp'.op = "actionResult" /\ lastOp'.kind = "joinGame" /\ lastOp'.res = "error")
            => /\ UNCHANGED <<connection, handles, playerState>>
               /\ NoCall(calls', "disconnect")]_vars

C9_Witness ==
    /\ lastOp.op = "actionResult"
    /\ lastOp.kind = "joinGame"
    /\ lastOp.res = "error"
    /\ connection = lastOp.h
    /\ handles[connection].status = "live"
    /\ playerState # NoState

\* C10: the result of every action sent to the transport yields exactly one failure
\* notification when it is a failure and none when it is a success.
C10_FailureNotified ==
    [][lastOp'.op = "actionResult"
        => Len(toasts') = IF lastOp'.res = "error" THEN 1 ELSE 0]_vars

CreateCalls(cs) == {i \in 1..Len(cs) : cs[i].call = "create"}

\* what createGame does with and without a token, and when the login it awaits settles
CreateGameSteps ==
    /\ \A i \in CreateCalls(calls') : calls'[i].arg # None
    /\ (lastOp'.op = "createGame" /\ token # None)
         => calls' = <<Call("create", NoHandle, token)>>
    /\ (lastOp'.op = "createGame" /\ token = None /\ ~isLoginIn)
         => calls' = <<Call("loginAnonymous", NoHandle, None)>> /\ lastOp'.res = "pending"
    /\ (lastOp'.op = "loginSettle" /\ lastOp'.kind = "createGame" /\ lastOp'.res # None)
         => calls' = <<Call("create", NoHandle, lastOp'.res)>> /\ token' = lastOp'.res
    /\ (lastOp'.op = "loginSettle" /\ lastOp'.kind = "createGame" /\ lastOp'.res = None)
         => calls' = <<>>

\* C11 (as claimed): createGame() without a token triggers a login and, when it yields a
\* token, sends exactly one create request with that token; it gives up (returns absent,
\* no create request) only when that login fails; no create request carries an absent token.
C11_CreateAbsentOnlyOnLoginFailure ==
    [][/\ CreateGameSteps
       /\ lastOp'.op = "createGame" => lastOp'.res # None]_vars

\* C11 (amended): as claimed, except that createGame() also returns absent at once, with
\* no login request and no create request, when another login is in flight at the call.
C11_CreateGame ==
    [][/\ CreateGameSteps
       /\ lastOp'.op = "createGame"
            => /\ lastOp'.res = None <=> (token = None /\ isLoginIn)
               /\ lastOp'.res = None => calls' = <<>>]_vars

C11_Witness ==
    /\ lastOp.op = "loginSettle"
    /\ lastOp.kind = "createGame"
    /\ lastOp.res \in Tokens
    /\ calls = <<Call("create", NoHandle, token)>>

\* C12: a resolved id stays resolved with the same record, and getUserName of a resolved
\* id returns its cached name and starts no lookup.
C12_ResolveIdempotent ==
    [][/\ \A id \in Users :
            playerNameMapping[id] # NoUser => playerNameMapping'[id] = playerNameMapping[id]
       /\ (lastOp'.op = "getUserName" /\ playerNameMapping[lastOp'.kind] # NoUser)
            => /\ lastOp'.res = playerNameMapping[lastOp'.kind].name
               /\ lastOp'.res = NameOf(lastOp'.kind)
               /\ calls' = <<>>
               /\ pendingLookups' = pendingLookups]_vars

C12_Witness ==
    /\ lastOp.op = "getUserName"
    /\ lastOp.kind = "u2"
    /\ lastOp.res = NameOf("u2")
    /\ token # "t2"
    /\ calls = <<>>

\* C13: whenever a token is held (stored at startup or returned by login), user is the
\* record decoded from it, the user directory holds that record, and getUserName of the
\* user's own id returns the cached name without starting a lookup.
C13_OwnUserSeeded ==
    token # None =>
        /\ user = getUserFromToken(token)
        /\ playerNameMapping[user.id] = user
        /\ (lastOp.op = "getUserName" /\ lastOp.kind = user.id)
             => calls = <<>> /\ lastOp.res = user.name

C13_Witness ==
    /\ token = "t2"
    /\ user = UserData("u2")
    /\ lastOp.op = "getUserName"
    /\ lastOp.kind = "u2"
    /\ lastOp.res = NameOf("u2")
    /\ calls = <<>>

\* C14: a failure reported on the current handle stores the error, clears connecting and
\* leaves the context with no connection handle.
C14_FailureResetsConnection ==
    [][(lastOp'.op = "onFailure" /\ lastOp'.h = connection)
        => /\ connectionError' = lastOp'.res
           /\ connecting' = FALSE
           /\ connection' = NoHandle]_vars

\* C15: a login() whose request fails returns absent, leaves token, user and the user
\* directory as they were, sends nothing and clears the logging-in flag and the guard.
C15_LoginFailure ==
    [][(lastOp'.op = "loginSettle" /\ lastOp'.res = None)
        => /\ UNCHANGED <<token, user, playerNameMapping>>
           /\ loggingIn' = FALSE
           /\ isLoginIn' = FALSE
           /\ calls' = <<>>
           /\ toasts' = <<>>]_vars

C15_Witness ==
    /\ lastOp.op = "loginSettle"
    /\ lastOp.kind = "login"
    /\ lastOp.res = None
    /\ token # None
    /\ ~loggingIn

\* C16: a failed lookup leaves the user directory unchanged, and the next getUserName of
\* that id returns the raw id and starts no further lookup for it.
C16_FailedLookupNotRetried ==
    [][/\ (lastOp'.op = "lookupSettle" /\ lastOp'.res = "error")
            => playerNameMapping' = playerNameMapping /\ calls' = <<>> /\ toasts' = <<>>
       /\ (/\ lastOp.op = "lookupSettle"
           /\ lastOp.res = "error"
           /\ lastOp'.op = "getUserName"
           /\ lastOp'.kind = lastOp.kind
           /\ playerNameMapping[lastOp.kind] = NoUser)
            => /\ lastOp'.res = lastOp'.kind
               /\ NoCall(calls', "lookupUser")]_vars

\* C17: every state-update callback makes playerState exactly its payload, whatever the
\* previous snapshot was, and clears the connecting flag.
C17_SnapshotReplaced ==
    [][lastOp'.op = "onStateUpdate"
        => /\ playerState' = [turn |-> lastOp'.kind, other |-> lastOp'.res]
           /\ playerState' \in Snapshots
           /\ connecting' = FALSE]_vars

C17_Witness ==
    /\ lastOp.op = "onStateUpdate"
    /\ lastOp.h = connection
    /\ playerState = [turn |-> "u2", other |-> "b"]
    /\ ~connecting

\* C18: endGame() leaves the context with no connection handle and no playerState, and a
\* startGame / playCard / drawCard that follows it is dropped.
C18_EndGameClearsConnection ==
    [][/\ lastOp'.op = "endGame" => connection' = NoHandle /\ playerState' = NoState
       /\ (lastOp.op = "endGame" /\ IsSend(lastOp')) => calls' = <<>>]_vars

\* C19: the connecting flag is set only while a connection handle is held.
C19_ConnectingOnlyWithHandle == connecting => connection # NoHandle

\* C20: the isLoginIn guard and the loggingIn flag are set exactly while a loginAnonymous
\* request is outstanding, and a login() made when none is outstanding sends a new request.
C20_GuardReleased ==
    [][/\ isLoginIn' <=> loginRequests' # <<>>
       /\ loggingIn' <=> loginRequests' # <<>>
       /\ (lastOp'.op = "loginSettle") => ~isLoginIn' /\ ~loggingIn'
       /\ (lastOp'.op = "login" /\ loginRequests = <<>>)
            => /\ calls' = <<Call("loginAnonymous", NoHandle, None)>>
               /\ Len(loginRequests') = 1
               /\ lastOp'.res = "pending"]_vars

C20_Witness ==
    /\ token = "t2"
    /\ lastOp.op = "login"
    /\ lastOp.res = "pending"
    /\ isLoginIn
    /\ loggingIn
    /\ calls = <<Call("loginAnonymous", NoHandle, None)>>

====
